---------------------------- MODULE Spec2Model ----------------------------
(***************************************************************************)
(* Model of the API performance bottleneck analyzer:                       *)
(*   log_analyzer.py  LogAnalyzer.analyze_logs / get_critical_issues       *)
(*   ai_analyzer.py   AIAnalyzer.__init__ / analyze_bottlenecks            *)
(*   main.py          the POST /analyze and /quick-analyze handlers        *)
(*                                                                         *)
(* Numbers.  response_time_ms is a float; it is modelled as an integer     *)
(* number of microseconds (1/1000 ms), so that values with more than two   *)
(* decimals exist and round(x, 2) is a real conversion.  Reported values:  *)
(*   avg_response_time_ms, p95_response_time_ms, avg_db_queries            *)
(*       in hundredths (round(x, 2)),                                      *)
(*   error_rate in thousandths (round(x, 3)).                              *)
(* Unrounded averages are kept as the pair (sum, count) the code divides,  *)
(* and compared by cross-multiplication.                                   *)
(***************************************************************************)
EXTENDS Integers, Sequences, FiniteSets, TLC

VARIABLES
    slow_threshold_ms,     \* LogAnalyzer.slow_threshold_ms, in ms
    error_rate_threshold,  \* LogAnalyzer.error_rate_threshold, in thousandths
    pc,                    \* per call: position inside analyze_logs
    logs,                  \* per call: the logs argument
    idx,                   \* per call: position of the grouping loop
    endpoint_stats,        \* per call: the local accumulator dict
    result,                \* per call: the returned dict (or NoResult)
    hpc,                   \* position of the HTTP handler
    use_ai,                \* request.use_ai
    api_key,               \* whether OPENAI_API_KEY is set in the environment
    provider_calls,        \* number of calls made to the text-generation API
    issues,                \* the list get_critical_issues returned
    response               \* the HTTP response of the request

vars == <<slow_threshold_ms, error_rate_threshold, pc, logs, idx,
          endpoint_stats, result, hpc, use_ai, api_key, provider_calls,
          issues, response>>

analyzerVars == <<pc, logs, idx, endpoint_stats, result>>
configVars == <<slow_threshold_ms, error_rate_threshold>>
handlerVars == <<hpc, use_ai, api_key, provider_calls, issues, response>>

-----------------------------------------------------------------------------
(* Bounds of the model *)

MaxLogs == 2        \* longest batch sent to the /analyze handler
MaxRanked == 6      \* longest batch of the one-record-per-endpoint family
MaxGroup == 21      \* largest single-endpoint group of the percentile family
MaxConcLogs == 2    \* longest batch of each of the two concurrent calls

(* Program constants *)

DefaultSlowThresholdMs == 500
DefaultErrorRateThreshold == 50     \* 0.05, in thousandths
DbHeavyThreshold == 5
TopN == 5
IssueLimit == 3
ErrorStatus == 400

Calls == {1, 2}

-----------------------------------------------------------------------------
(* Values *)

None == <<>>
Some(n) == <<n>>
IsNone(x) == x = <<>>
Val(x) == x[1]

Min(a, b) == IF a <= b THEN a ELSE b

\* a log entry as model_dump() hands it to the analyzer
LogEntry(e, rt, sc, db) ==
    [endpoint |-> e, response_time_ms |-> rt, status_code |-> sc,
     db_query_count |-> db]

\* Python's round(): n/d to the nearest integer, ties to the even one (d > 0)
RoundHalfEven(n, d) ==
    LET q == n \div d
        r == n % d
    IN  IF 2 * r < d THEN q
        ELSE IF 2 * r > d THEN q + 1
        ELSE IF q % 2 = 0 THEN q ELSE q + 1

Range(s) == {s[k] : k \in 1..Len(s)}

Take(s, n) == SubSeq(s, 1, Min(n, Len(s)))

-----------------------------------------------------------------------------
(* LogAnalyzer.analyze_logs, lines 26-48: grouping *)

NewStats(e) ==
    [endpoint |-> e, count |-> 0, total_response_time |-> 0, errors |-> 0,
     db_queries |-> 0, response_times |-> <<>>]

HasKey(stats, e) == \E k \in 1..Len(stats) : stats[k].endpoint = e

KeyIndex(stats, e) == CHOOSE k \in 1..Len(stats) : stats[k].endpoint = e

\* `stats["db_queries"] += db_query_count` raises TypeError on None
Raises(log) == IsNone(log.db_query_count)

\* one iteration of the loop over logs; the dict keeps insertion order
Accumulate(stats, log) ==
    LET s0 == IF HasKey(stats, log.endpoint) THEN stats
              ELSE Append(stats, NewStats(log.endpoint))
        k  == KeyIndex(s0, log.endpoint)
        g  == s0[k]
    IN  [s0 EXCEPT ![k] =
            [endpoint |-> g.endpoint,
             count |-> g.count + 1,
             total_response_time |-> g.total_response_time + log.response_time_ms,
             errors |-> IF log.status_code >= ErrorStatus
                        THEN g.errors + 1 ELSE g.errors,
             db_queries |-> g.db_queries + Val(log.db_query_count),
             response_times |-> Append(g.response_times, log.response_time_ms)]]

-----------------------------------------------------------------------------
(* LogAnalyzer.analyze_logs, lines 55-73: per-endpoint analysis *)

RECURSIVE InsertAsc(_, _)
InsertAsc(s, x) ==
    IF s = <<>> THEN <<x>>
    ELSE IF x < Head(s) THEN <<x>> \o s
    ELSE <<Head(s)>> \o InsertAsc(Tail(s), x)

RECURSIVE Sorted(_)
Sorted(s) == IF s = <<>> THEN <<>>
             ELSE InsertAsc(Sorted(SubSeq(s, 1, Len(s) - 1)), s[Len(s)])

\* a variant that always takes the largest time
P95IndexLast(n) == n - 1

\* int(len(sorted_times) * 0.95)
P95Index(n) == (n * 95) \div 100

\* sorted_times[p95_index], 0-based in the code
P95Value(times) == Sorted(times)[P95Index(Len(times)) + 1]

EndpointAnalysis(g) ==
    [endpoint |-> g.endpoint,
     total_requests |-> g.count,
     avg_response_time_ms |-> RoundHalfEven(g.total_response_time, g.count * 10),
     p95_response_time_ms |-> RoundHalfEven(P95Value(g.response_times), 10),
     error_rate |-> RoundHalfEven(g.errors * 1000, g.count),
     avg_db_queries |-> RoundHalfEven(g.db_queries * 100, g.count),
     total_errors |-> g.errors]

-----------------------------------------------------------------------------
(* LogAnalyzer.analyze_logs, lines 75-83: classification on unrounded values *)

\* a variant that compares the rounded average
IsSlowRounded(g, slowMs) ==
    RoundHalfEven(g.total_response_time, g.count * 10) > slowMs * 100

IsSlow(g, slowMs) == g.total_response_time > slowMs * 1000 * g.count

IsHighError(g, errThr) == g.errors * 1000 > errThr * g.count

IsDbHeavy(g) == g.db_queries > DbHeavyThreshold * g.count

RECURSIVE SelectSeq2(_, _)
\* the subsequence of stats whose index is in keep, in order
SelectSeq2(stats, keep) ==
    IF stats = <<>> THEN <<>>
    ELSE LET n == Len(stats)
             front == SelectSeq2(SubSeq(stats, 1, n - 1), keep)
         IN  IF n \in keep THEN Append(front, stats[n]) ELSE front

SlowGroups(stats, slowMs) ==
    SelectSeq2(stats, {k \in 1..Len(stats) : IsSlow(stats[k], slowMs)})

HighErrorGroups(stats, errThr) ==
    SelectSeq2(stats, {k \in 1..Len(stats) : IsHighError(stats[k], errThr)})

DbHeavyGroups(stats) ==
    SelectSeq2(stats, {k \in 1..Len(stats) : IsDbHeavy(stats[k])})

Analyses(groups) == [k \in 1..Len(groups) |-> EndpointAnalysis(groups[k])]

-----------------------------------------------------------------------------
(* LogAnalyzer.analyze_logs, lines 85-88: list.sort(key, reverse=True) is    *)
(* stable: entries with equal keys keep their order                          *)

\* key is the name of the field the lambda reads
RECURSIVE InsertDesc(_, _, _)
InsertDesc(s, x, key) ==
    IF s = <<>> THEN <<x>>
    ELSE IF x[key] > Head(s)[key] THEN <<x>> \o s
    ELSE <<Head(s)>> \o InsertDesc(Tail(s), x, key)

RECURSIVE SortDesc(_, _)
SortDesc(s, key) ==
    IF s = <<>> THEN <<>>
    ELSE InsertDesc(SortDesc(SubSeq(s, 1, Len(s) - 1), key), s[Len(s)], key)

-----------------------------------------------------------------------------
(* LogAnalyzer.analyze_logs, lines 90-101: the returned dict *)

ErrorResult == [kind |-> "error", error |-> "No logs provided"]
NoResult == [kind |-> "none"]
RaisedResult == [kind |-> "raised", error |-> "TypeError"]

\* a variant that counts the sliced list
SummaryCountTruncated(list) == Len(Take(list, TopN))

\* lines 97-99: len() of the list before the [:5] slice
SummaryCount(list) == Len(list)

BuildResult(n, stats, slowMs, errThr) ==
    LET slow == SortDesc(Analyses(SlowGroups(stats, slowMs)), "avg_response_time_ms")
        high == SortDesc(Analyses(HighErrorGroups(stats, errThr)), "error_rate")
        db   == SortDesc(Analyses(DbHeavyGroups(stats)), "avg_db_queries")
    IN  [kind |-> "analysis",
         total_logs_analyzed |-> n,
         unique_endpoints |-> Len(stats),
         slow_endpoints |-> Take(slow, TopN),
         high_error_endpoints |-> Take(high, TopN),
         db_heavy_endpoints |-> Take(db, TopN),
         summary |-> [slow_endpoints_count |-> SummaryCount(slow),
                      high_error_endpoints_count |-> SummaryCount(high),
                      db_heavy_endpoints_count |-> SummaryCount(db)]]

RECURSIVE GroupAll(_)
\* the accumulator after the whole loop over logs
GroupAll(ls) ==
    IF ls = <<>> THEN <<>>
    ELSE Accumulate(GroupAll(SubSeq(ls, 1, Len(ls) - 1)), ls[Len(ls)])

\* analyze_logs run from start to end with nothing in between
AnalyzeLogs(ls, slowMs, errThr) ==
    IF ls = <<>> THEN ErrorResult
    ELSE IF \E k \in 1..Len(ls) : Raises(ls[k]) THEN RaisedResult
    ELSE BuildResult(Len(ls), GroupAll(ls), slowMs, errThr)

-----------------------------------------------------------------------------
(* LogAnalyzer.get_critical_issues, lines 103-128.  An issue string is      *)
(* modelled by its prefix, the endpoint and the numbers it embeds.           *)
(* f"{error_rate*100:.1f}%" prints the error rate in tenths of a percent,    *)
(* which is the rate in thousandths.                                         *)

SlowIssue(a) ==
    [text |-> "Slow endpoint", endpoint |-> a.endpoint,
     avg |-> a.avg_response_time_ms, p95 |-> a.p95_response_time_ms,
     db |-> a.avg_db_queries]

HighErrorIssue(a) ==
    [text |-> "High error rate", endpoint |-> a.endpoint,
     pct_tenths |-> a.error_rate, total_errors |-> a.total_errors]

DbHeavyIssue(a) ==
    [text |-> "DB-heavy endpoint", endpoint |-> a.endpoint,
     db |-> a.avg_db_queries]

\* analysis.get(name, []) of a dict without the key is the empty list
GetList(analysis, name) ==
    IF name \in DOMAIN analysis THEN analysis[name] ELSE <<>>

\* a variant that takes every entry of the three lists
get_critical_issues_all(analysis) ==
    LET slow == GetList(analysis, "slow_endpoints")
        high == GetList(analysis, "high_error_endpoints")
        db   == GetList(analysis, "db_heavy_endpoints")
    IN  [k \in 1..Len(slow) |-> SlowIssue(slow[k])]
        \o [k \in 1..Len(high) |-> HighErrorIssue(high[k])]
        \o [k \in 1..Len(db) |-> DbHeavyIssue(db[k])]

get_critical_issues(analysis) ==
    LET slow == Take(GetList(analysis, "slow_endpoints"), IssueLimit)
        high == Take(GetList(analysis, "high_error_endpoints"), IssueLimit)
        db   == Take(GetList(analysis, "db_heavy_endpoints"), IssueLimit)
    IN  [k \in 1..Len(slow) |-> SlowIssue(slow[k])]
        \o [k \in 1..Len(high) |-> HighErrorIssue(high[k])]
        \o [k \in 1..Len(db) |-> DbHeavyIssue(db[k])]

-----------------------------------------------------------------------------
(* Steps of one analyze_logs call c *)

\* a variant without the entry check
NoLogsIgnored(ls) == FALSE

\* line 23: `if not logs`
NoLogs(ls) == ls = <<>>

\* a variant in which the accumulator lives on the shared instance
SharedStats(c) == 1

\* line 27: endpoint_stats is a local of the call, one dict per call
LocalStats(c) == c

\* lines 23-33: entry; the empty batch returns the error dict at once
Call(c, batch) ==
    /\ pc[c] = "idle"
    /\ logs' = [logs EXCEPT ![c] = batch]
    /\ IF NoLogs(batch)
       THEN /\ pc' = [pc EXCEPT ![c] = "returned"]
            /\ result' = [result EXCEPT ![c] = ErrorResult]
            /\ UNCHANGED endpoint_stats
       ELSE /\ pc' = [pc EXCEPT ![c] = "group"]
            /\ endpoint_stats' = [endpoint_stats EXCEPT ![LocalStats(c)] = <<>>]
            /\ result' = result
    /\ UNCHANGED idx

\* lines 35-48: one iteration of `for log in logs`
GroupStep(c) ==
    /\ pc[c] = "group"
    /\ idx[c] <= Len(logs[c])
    /\ IF Raises(logs[c][idx[c]])
       THEN /\ pc' = [pc EXCEPT ![c] = "raised"]
            /\ result' = [result EXCEPT ![c] = RaisedResult]
            /\ UNCHANGED <<idx, endpoint_stats>>
       ELSE /\ endpoint_stats' =
                  [endpoint_stats EXCEPT
                      ![LocalStats(c)] = Accumulate(@, logs[c][idx[c]])]
            /\ idx' = [idx EXCEPT ![c] = @ + 1]
            /\ UNCHANGED <<pc, result>>
    /\ UNCHANGED <<logs, configVars, handlerVars>>

\* lines 50-101: per-endpoint analysis, classification, sort, return
Classify(c) ==
    /\ pc[c] = "group"
    /\ idx[c] > Len(logs[c])
    /\ result' = [result EXCEPT ![c] =
                    BuildResult(Len(logs[c]), endpoint_stats[LocalStats(c)],
                                slow_threshold_ms, error_rate_threshold)]
    /\ pc' = [pc EXCEPT ![c] = "returned"]
    /\ UNCHANGED <<logs, idx, endpoint_stats, configVars, handlerVars>>

\* call c has returned an analysis (not the error dict)
Returned(c) == pc[c] = "returned" /\ result[c].kind = "analysis"

-----------------------------------------------------------------------------
(* Inputs *)

Names == <<"/e1", "/e2", "/e3", "/e4", "/e5", "/e6", "/e7", "/e8">>

\* (response time in microseconds, status code, db query count)
RankShapes ==
    { <<0, 200, 0>>,          \* zero average
      <<500000, 500, 5>>,     \* exactly at both fixed thresholds, an error
      <<500003, 200, 6>>,     \* just above 500 ms, reported as 500.0
      <<900004, 404, 9>> }    \* far above, an error, db-heavy

\* one record per endpoint, endpoints in the order of Names
RankBatches ==
    UNION { { [k \in 1..n |-> LogEntry(Names[k], sh[k][1], sh[k][2], Some(sh[k][3]))]
              : sh \in [1..n -> RankShapes] } : n \in 0..MaxRanked }

Strides == {1, 3, 7}

\* one endpoint, n records whose times are scattered by the stride
GroupBatch(n, stride) ==
    [j \in 1..n |-> LogEntry(Names[1], ((j * stride) % n) * 1000 + 3, 200, Some(0))]

GroupBatches == { GroupBatch(n, st) : n \in 1..MaxGroup, st \in Strides }

AnalyzerInputs == RankBatches \cup GroupBatches

-----------------------------------------------------------------------------
(* The analyzer called directly, with either documented slow threshold *)

InitCalls ==
    /\ pc = [c \in Calls |-> "idle"]
    /\ logs = [c \in Calls |-> <<>>]
    /\ idx = [c \in Calls |-> 1]
    /\ endpoint_stats = [c \in Calls |-> <<>>]
    /\ result = [c \in Calls |-> NoResult]

InitHandler ==
    /\ hpc = "idle"
    /\ use_ai = FALSE
    /\ provider_calls = 0
    /\ issues = <<>>
    /\ response = [status |-> 0]

InitAnalyzer ==
    /\ slow_threshold_ms \in {0, DefaultSlowThresholdMs}
    /\ error_rate_threshold = DefaultErrorRateThreshold
    /\ api_key = FALSE
    /\ InitCalls
    /\ InitHandler

\* a caller passes the returned dict to get_critical_issues
DirectExtract ==
    /\ pc[1] = "returned"
    /\ hpc = "idle"
    /\ issues' = get_critical_issues(result[1])
    /\ hpc' = "extracted"
    /\ UNCHANGED <<analyzerVars, configVars, use_ai, api_key, provider_calls,
                   response>>

DirectCall ==
    /\ pc[1] = "idle"
    /\ \E batch \in AnalyzerInputs : Call(1, batch)
    /\ UNCHANGED <<configVars, handlerVars>>

NextAnalyzer ==
    \/ DirectCall
    \/ GroupStep(1)
    \/ Classify(1)
    \/ DirectExtract

SpecAnalyzer == InitAnalyzer /\ [][NextAnalyzer]_vars

-----------------------------------------------------------------------------
(* AIAnalyzer.analyze_bottlenecks, lines 61-93: the payloads *)

\* a variant without the early return
IssuesIgnored(iss) == FALSE

\* line 61: `if not issues`
NoIssues(iss) == iss = <<>>

HealthyPayload ==
    [status |-> "healthy", message |-> "No significant bottlenecks detected",
     recommendations |-> <<>>]

DetectedPayload(iss) ==
    [status |-> "bottlenecks_detected", provider |-> "openai",
     issues_analyzed |-> Len(iss), raw_issues |-> iss]

ProviderErrorPayload ==
    [status |-> "error", message |-> "Failed to get AI analysis from openai"]

(* main.py, lines 114-124: the payloads of the handler *)

DisabledPayload ==
    [status |-> "disabled",
     message |-> "OPENAI_API_KEY not found in environment variables"]

FailedPayload == [status |-> "error", message |-> "AI analysis failed"]

NoPayload == [status |-> "None"]

-----------------------------------------------------------------------------
(* main.py, the POST /analyze handler, lines 92-129 *)

HandlerRecords ==
    { LogEntry(e, rt, sc, db) :
        e \in {Names[1], Names[2]}, rt \in {100000, 900000},
        sc \in {200, 500}, db \in {None, Some(-1), Some(6)} }

\* request.logs after model_dump(): every batch of at most MaxLogs entries
HandlerInputs == UNION { [1..n -> HandlerRecords] : n \in 0..MaxLogs }

\* lines 94-97: the request arrives and the analyzer is called
ReceiveAnalyze ==
    /\ hpc = "idle"
    /\ \E batch \in HandlerInputs : Call(1, batch)
    /\ \E ai \in BOOLEAN : use_ai' = ai
    /\ hpc' = "analyzing"
    /\ UNCHANGED <<configVars, api_key, provider_calls, issues, response>>

Respond(status, analysis, ai, detail) ==
    /\ response' = [status |-> status, analysis |-> analysis,
                    ai_recommendations |-> ai, detail |-> detail]
    /\ hpc' = "responded"
    /\ UNCHANGED <<analyzerVars, configVars, use_ai, api_key>>

\* lines 128-129: an exception of analyze_logs becomes a 500
AnalysisRaised ==
    /\ hpc = "analyzing"
    /\ pc[1] = "raised"
    /\ Respond(500, NoResult, NoPayload, "Analysis failed: TypeError")
    /\ UNCHANGED <<provider_calls, issues>>

\* lines 99-100 and 128-129: the HTTPException(400) raised inside the try is
\* an Exception, caught by the handler's own except clause
RejectEmpty ==
    /\ hpc = "analyzing"
    /\ pc[1] = "returned"
    /\ result[1].kind = "error"
    /\ Respond(500, NoResult, NoPayload, "Analysis failed: 400: No logs provided")
    /\ UNCHANGED <<provider_calls, issues>>

\* lines 102-108, 126: use_ai is false
RespondWithoutAI ==
    /\ hpc = "analyzing"
    /\ Returned(1)
    /\ ~use_ai
    /\ Respond(200, result[1], NoPayload, "")
    /\ UNCHANGED <<provider_calls, issues>>

\* line 110 and lines 114-119: AIAnalyzer() raises ValueError without a key
AIDisabled ==
    /\ hpc = "analyzing"
    /\ Returned(1)
    /\ use_ai
    /\ ~api_key
    /\ Respond(200, result[1], DisabledPayload, "")
    /\ UNCHANGED <<provider_calls, issues>>

\* line 110 and lines 120-124: constructing the client raises something else
AIClientError ==
    /\ hpc = "analyzing"
    /\ Returned(1)
    /\ use_ai
    /\ api_key
    /\ Respond(200, result[1], FailedPayload, "")
    /\ UNCHANGED <<provider_calls, issues>>

\* lines 110-113 with ai_analyzer.py lines 61-66: no issue, no provider call
AdviceNotNeeded ==
    /\ hpc = "analyzing"
    /\ Returned(1)
    /\ use_ai
    /\ api_key
    /\ NoIssues(get_critical_issues(result[1]))
    /\ issues' = get_critical_issues(result[1])
    /\ Respond(200, result[1], HealthyPayload, "")
    /\ UNCHANGED provider_calls

\* lines 110-112 with ai_analyzer.py lines 69-75: the provider is called
CallProvider ==
    /\ hpc = "analyzing"
    /\ Returned(1)
    /\ use_ai
    /\ api_key
    /\ ~NoIssues(get_critical_issues(result[1]))
    /\ issues' = get_critical_issues(result[1])
    /\ provider_calls' = provider_calls + 1
    /\ hpc' = "provider"
    /\ UNCHANGED <<analyzerVars, configVars, use_ai, api_key, response>>

\* ai_analyzer.py lines 79-86, main.py lines 113, 126
ProviderReturns ==
    /\ hpc = "provider"
    /\ Respond(200, result[1], DetectedPayload(issues), "")
    /\ UNCHANGED <<provider_calls, issues>>

\* ai_analyzer.py lines 88-93, main.py lines 113, 126
ProviderFails ==
    /\ hpc = "provider"
    /\ Respond(200, result[1], ProviderErrorPayload, "")
    /\ UNCHANGED <<provider_calls, issues>>

-----------------------------------------------------------------------------
(* main.py, the POST /quick-analyze handler, lines 138-154 *)

\* lines 139-140: the request arrives and the analyzer is called
ReceiveQuick ==
    /\ hpc = "idle"
    /\ \E batch \in HandlerInputs : Call(1, batch)
    /\ hpc' = "quick"
    /\ UNCHANGED <<configVars, use_ai, api_key, provider_calls, issues, response>>

QuickRespond(resp) ==
    /\ response' = resp
    /\ hpc' = "quick_responded"
    /\ UNCHANGED <<analyzerVars, configVars, use_ai, api_key, provider_calls,
                   issues>>

\* lines 148-149: list[0] if the list is not empty, else None
FirstOrNone(list) == IF list = <<>> THEN None ELSE Some(list[1])

\* lines 153-154: an exception of analyze_logs becomes a 500
QuickRaised ==
    /\ hpc = "quick"
    /\ pc[1] = "raised"
    /\ QuickRespond([status |-> 500, detail |-> "Analysis failed: TypeError"])

\* lines 142-143 and 153-154: the HTTPException(400) raised inside the try is
\* an Exception, caught by the handler's own except clause
QuickRejectEmpty ==
    /\ hpc = "quick"
    /\ pc[1] = "returned"
    /\ result[1].kind = "error"
    /\ QuickRespond([status |-> 500,
                     detail |-> "Analysis failed: 400: No logs provided"])

\* lines 146-151: the summary of the analysis
QuickSummary ==
    /\ hpc = "quick"
    /\ Returned(1)
    /\ QuickRespond([status |-> 200, detail |-> "",
                     summary |-> result[1].summary,
                     top_slow_endpoint |-> FirstOrNone(result[1].slow_endpoints),
                     top_error_endpoint |->
                         FirstOrNone(result[1].high_error_endpoints),
                     total_logs |-> result[1].total_logs_analyzed])

\* main.py line 24: LogAnalyzer(slow_threshold_ms=500, error_rate_threshold=0.05)
Init ==
    /\ slow_threshold_ms = DefaultSlowThresholdMs
    /\ error_rate_threshold = DefaultErrorRateThreshold
    /\ api_key \in BOOLEAN
    /\ InitCalls
    /\ InitHandler

Next ==
    \/ ReceiveAnalyze
    \/ GroupStep(1)
    \/ Classify(1)
    \/ AnalysisRaised
    \/ RejectEmpty
    \/ RespondWithoutAI
    \/ AIDisabled
    \/ AIClientError
    \/ AdviceNotNeeded
    \/ CallProvider
    \/ ProviderReturns
    \/ ProviderFails
    \/ ReceiveQuick
    \/ QuickRaised
    \/ QuickRejectEmpty
    \/ QuickSummary

Spec == Init /\ [][Next]_vars

-----------------------------------------------------------------------------
(* Two callers sharing the LogAnalyzer instance of main.py line 24 *)

ConcRecords ==
    { LogEntry(e, rt, 200, Some(0)) :
        e \in {Names[1], Names[2]}, rt \in {100000, 900000} }

ConcInputs == UNION { [1..n -> ConcRecords] : n \in 0..MaxConcLogs }

ConcCall(c) ==
    /\ pc[c] = "idle"
    /\ \E batch \in ConcInputs : Call(c, batch)
    /\ UNCHANGED <<configVars, handlerVars>>

InitConc ==
    /\ slow_threshold_ms = DefaultSlowThresholdMs
    /\ error_rate_threshold = DefaultErrorRateThreshold
    /\ api_key = FALSE
    /\ InitCalls
    /\ InitHandler

NextConc ==
    \/ \E c \in Calls : ConcCall(c)
    \/ \E c \in Calls : GroupStep(c)
    \/ \E c \in Calls : Classify(c)
    \/ DirectExtract

SpecConc == InitConc /\ [][NextConc]_vars

-----------------------------------------------------------------------------
(* Quantities of a batch, computed from the input records alone *)

EndpointsOf(ls) == {ls[k].endpoint : k \in 1..Len(ls)}

RecordsOf(ls, e) == {k \in 1..Len(ls) : ls[k].endpoint = e}

RECURSIVE SumTimes(_, _)
SumTimes(ls, S) ==
    IF S = {} THEN 0
    ELSE LET k == CHOOSE j \in S : TRUE
         IN  ls[k].response_time_ms + SumTimes(ls, S \ {k})

RECURSIVE SumDb(_, _)
SumDb(ls, S) ==
    IF S = {} THEN 0
    ELSE LET k == CHOOSE j \in S : TRUE
         IN  Val(ls[k].db_query_count) + SumDb(ls, S \ {k})

ErrorsOf(ls, e) ==
    Cardinality({k \in RecordsOf(ls, e) : ls[k].status_code >= 400})

\* average response time of e > slow_threshold_ms, unrounded
ExceedsSlow(ls, e) ==
    SumTimes(ls, RecordsOf(ls, e))
        > slow_threshold_ms * 1000 * Cardinality(RecordsOf(ls, e))

\* errors / count > error_rate_threshold
ExceedsError(ls, e) ==
    ErrorsOf(ls, e) * 1000 > error_rate_threshold * Cardinality(RecordsOf(ls, e))

\* average db queries > 5
ExceedsDb(ls, e) ==
    SumDb(ls, RecordsOf(ls, e)) > 5 * Cardinality(RecordsOf(ls, e))

SlowSet(ls) == {e \in EndpointsOf(ls) : ExceedsSlow(ls, e)}
ErrorSet(ls) == {e \in EndpointsOf(ls) : ExceedsError(ls, e)}
DbSet(ls) == {e \in EndpointsOf(ls) : ExceedsDb(ls, e)}

Listed(list) == {list[k].endpoint : k \in 1..Len(list)}

-----------------------------------------------------------------------------
(* C1 *)

\* C1, as stated: in every result of a non-empty batch, an endpoint is in the
\* returned slow_endpoints list if and only if its unrounded average response
\* time is strictly greater than slow_threshold_ms.
C1_SlowIffExceeds ==
    Returned(1) =>
        Listed(result[1].slow_endpoints) = SlowSet(logs[1])

\* C1, amended: the returned slow list holds only endpoints whose unrounded
\* average strictly exceeds slow_threshold_ms; it holds all of them when at
\* most 5 qualify, and exactly 5 of them otherwise.  With the threshold 0
\* and at most 5 endpoints of positive average, all of those are listed.
C1_SlowTopFive ==
    Returned(1) =>
        LET listed == Listed(result[1].slow_endpoints)
            all    == SlowSet(logs[1])
        IN  /\ listed \subseteq all
            /\ Cardinality(all) <= 5 => listed = all
            /\ Cardinality(all) > 5 => Cardinality(listed) = 5
            /\ (slow_threshold_ms = 0 /\ Cardinality(all) <= 5) =>
                  \A e \in EndpointsOf(logs[1]) :
                      SumTimes(logs[1], RecordsOf(logs[1], e)) > 0 => e \in listed

\* C1 witness: a result at threshold 500 that lists an endpoint reported as
\* 500.0 and leaves out an endpoint whose average is exactly 500 ms
C1_Witness ==
    /\ Returned(1)
    /\ slow_threshold_ms = 500
    /\ \E k \in 1..Len(result[1].slow_endpoints) :
          result[1].slow_endpoints[k].avg_response_time_ms = 50000
    /\ \E e \in EndpointsOf(logs[1]) :
          /\ SumTimes(logs[1], RecordsOf(logs[1], e))
                = 500000 * Cardinality(RecordsOf(logs[1], e))
          /\ e \notin Listed(result[1].slow_endpoints)

-----------------------------------------------------------------------------
(* C2 *)

\* C2: a call on an empty batch returns the error dict and nothing else: no
\* endpoint statistics, no ranked lists, no summary counts; the grouping loop
\* and the classification never run.
C2_EmptyBatchError ==
    (pc[1] # "idle" /\ logs[1] = <<>>) =>
        /\ pc[1] = "returned"
        /\ result[1].kind = "error"
        /\ result[1].error = "No logs provided"
        /\ DOMAIN result[1] \cap
              {"total_logs_analyzed", "unique_endpoints", "slow_endpoints",
               "high_error_endpoints", "db_heavy_endpoints", "summary"} = {}
        /\ endpoint_stats[1] = <<>>
        /\ idx[1] = 1

\* C2 witness: the call on the empty batch has returned
C2_Witness ==
    pc[1] = "returned" /\ logs[1] = <<>> /\ result[1] = ErrorResult

-----------------------------------------------------------------------------
(* C3 *)

\* the unrounded metric of endpoint a is at least that of endpoint b
AvgTimeGeq(ls, a, b) ==
    SumTimes(ls, RecordsOf(ls, a)) * Cardinality(RecordsOf(ls, b))
        >= SumTimes(ls, RecordsOf(ls, b)) * Cardinality(RecordsOf(ls, a))

ErrorRateGeq(ls, a, b) ==
    ErrorsOf(ls, a) * Cardinality(RecordsOf(ls, b))
        >= ErrorsOf(ls, b) * Cardinality(RecordsOf(ls, a))

AvgDbGeq(ls, a, b) ==
    SumDb(ls, RecordsOf(ls, a)) * Cardinality(RecordsOf(ls, b))
        >= SumDb(ls, RecordsOf(ls, b)) * Cardinality(RecordsOf(ls, a))

NoRepeat(list) == Cardinality(Listed(list)) = Len(list)

\* C3: each ranked list has at most 5 entries, holds only endpoints whose
\* triggering metric strictly exceeds its threshold, holds each endpoint at
\* most once, and the triggering metric never increases along the list.
C3_RankedLists ==
    Returned(1) =>
        LET ls   == logs[1]
            slow == result[1].slow_endpoints
            high == result[1].high_error_endpoints
            db   == result[1].db_heavy_endpoints
        IN  /\ Len(slow) <= 5 /\ Len(high) <= 5 /\ Len(db) <= 5
            /\ Listed(slow) \subseteq SlowSet(ls)
            /\ Listed(high) \subseteq ErrorSet(ls)
            /\ Listed(db) \subseteq DbSet(ls)
            /\ NoRepeat(slow) /\ NoRepeat(high) /\ NoRepeat(db)
            /\ \A k \in 1..(Len(slow) - 1) :
                  AvgTimeGeq(ls, slow[k].endpoint, slow[k + 1].endpoint)
            /\ \A k \in 1..(Len(high) - 1) :
                  ErrorRateGeq(ls, high[k].endpoint, high[k + 1].endpoint)
            /\ \A k \in 1..(Len(db) - 1) :
                  AvgDbGeq(ls, db[k].endpoint, db[k + 1].endpoint)

-----------------------------------------------------------------------------
(* C4 *)

\* C4: each summary count is the number of all endpoints that cross the
\* respective threshold, also when more than 5 do, and the returned list has
\* exactly min(5, count) entries.
C4_SummaryCounts ==
    Returned(1) =>
        LET ls == logs[1]
            r  == result[1]
        IN  /\ r.summary.slow_endpoints_count = Cardinality(SlowSet(ls))
            /\ r.summary.high_error_endpoints_count = Cardinality(ErrorSet(ls))
            /\ r.summary.db_heavy_endpoints_count = Cardinality(DbSet(ls))
            /\ Len(r.slow_endpoints) = Min(5, Cardinality(SlowSet(ls)))
            /\ Len(r.high_error_endpoints) = Min(5, Cardinality(ErrorSet(ls)))
            /\ Len(r.db_heavy_endpoints) = Min(5, Cardinality(DbSet(ls)))

\* C4 witness: six endpoints are slow and five of them are returned
C4_Witness ==
    /\ Returned(1)
    /\ result[1].summary.slow_endpoints_count = 6
    /\ Len(result[1].slow_endpoints) = 5

-----------------------------------------------------------------------------
(* C5 *)

AllEntries(r) ==
    Range(r.slow_endpoints) \cup Range(r.high_error_endpoints)
        \cup Range(r.db_heavy_endpoints)

\* v (microseconds) is the element at 0-based position i of the times of the
\* records S in ascending order
IsOrderStatistic(ls, S, i, v) ==
    /\ \E k \in S : ls[k].response_time_ms = v
    /\ Cardinality({k \in S : ls[k].response_time_ms < v}) <= i
    /\ Cardinality({k \in S : ls[k].response_time_ms <= v}) > i

\* h (hundredths of a ms) is v (microseconds) rounded to 2 decimals
IsRounded2(h, v) == 10 * h - 5 <= v /\ v <= 10 * h + 5

\* C5, as stated: the reported p95 is the element at index floor(count*0.95)
\* of the group's ascending response times, one of the observed values; for a
\* group of size 1 the p95 and the average both equal the record's time.
C5_P95IsObserved ==
    Returned(1) =>
        \A a \in AllEntries(result[1]) :
            LET S == RecordsOf(logs[1], a.endpoint)
                n == Cardinality(S)
                i == (n * 95) \div 100
            IN  /\ i \in 0..(n - 1)
                /\ IsOrderStatistic(logs[1], S, i, 10 * a.p95_response_time_ms)
                /\ n = 1 => \A k \in S :
                      /\ 10 * a.p95_response_time_ms = logs[1][k].response_time_ms
                      /\ 10 * a.avg_response_time_ms = logs[1][k].response_time_ms

\* C5, amended: the reported p95 is the element at index floor(count*0.95)
\* (always within 0..count-1) of the group's ascending response times,
\* rounded to 2 decimals; for a group of size 1 the reported p95 and the
\* reported average are equal, both the record's time rounded to 2 decimals.
C5_P95Rounded ==
    Returned(1) =>
        \A a \in AllEntries(result[1]) :
            LET S == RecordsOf(logs[1], a.endpoint)
                n == Cardinality(S)
                i == (n * 95) \div 100
            IN  /\ a.total_requests = n
                /\ i \in 0..(n - 1)
                /\ \E k \in S :
                      /\ IsOrderStatistic(logs[1], S, i, logs[1][k].response_time_ms)
                      /\ IsRounded2(a.p95_response_time_ms,
                                    logs[1][k].response_time_ms)
                /\ n = 1 => \A k \in S :
                      /\ a.p95_response_time_ms = a.avg_response_time_ms
                      /\ IsRounded2(a.avg_response_time_ms,
                                    logs[1][k].response_time_ms)

\* C5 witness: a reported group of 21 records, whose index 19 is not the
\* last one, with 21 different times
C5_Witness ==
    /\ Returned(1)
    /\ \E a \in AllEntries(result[1]) :
          /\ a.total_requests = 21
          /\ Cardinality({logs[1][k].response_time_ms : k \in 1..Len(logs[1])}) = 21

-----------------------------------------------------------------------------
(* C7 *)

\* C7: the issue list holds one string for each of the first min(3, length)
\* entries of the slow list, then of the high-error list, then of the
\* db-heavy list, in list order (at most 9 strings), and it is empty exactly
\* when all three ranked lists are empty.
C7_IssueOrder ==
    (hpc = "extracted" /\ Returned(1)) =>
        LET slow == result[1].slow_endpoints
            high == result[1].high_error_endpoints
            db   == result[1].db_heavy_endpoints
            ns   == Min(3, Len(slow))
            nh   == Min(3, Len(high))
            nd   == Min(3, Len(db))
        IN  /\ Len(issues) = ns + nh + nd
            /\ Len(issues) <= 9
            /\ \A k \in 1..ns :
                  /\ issues[k].text = "Slow endpoint"
                  /\ issues[k].endpoint = slow[k].endpoint
                  /\ issues[k].avg = slow[k].avg_response_time_ms
                  /\ issues[k].p95 = slow[k].p95_response_time_ms
            /\ \A k \in 1..nh :
                  /\ issues[ns + k].text = "High error rate"
                  /\ issues[ns + k].endpoint = high[k].endpoint
                  /\ issues[ns + k].total_errors = high[k].total_errors
            /\ \A k \in 1..nd :
                  /\ issues[ns + nh + k].text = "DB-heavy endpoint"
                  /\ issues[ns + nh + k].endpoint = db[k].endpoint
                  /\ issues[ns + nh + k].db = db[k].avg_db_queries
            /\ (issues = <<>>) <=> (slow = <<>> /\ high = <<>> /\ db = <<>>)

\* C7 witness: issues extracted from a result whose slow list holds more
\* than 3 entries and whose other two lists hold 2 entries each
C7_Witness ==
    /\ hpc = "extracted"
    /\ Returned(1)
    /\ Len(result[1].slow_endpoints) > 3
    /\ Len(result[1].high_error_endpoints) = 2
    /\ Len(result[1].db_heavy_endpoints) = 2
    /\ Len(issues) = 7

-----------------------------------------------------------------------------
(* C6 *)

\* C6: in every endpoint summary of a result, 0 <= error_rate <= 1 (the
\* errors never exceed the requests, and a group whose records all have a
\* status code >= 400 has error rate 1) and avg_db_queries >= 0.
C6_RatesInRange ==
    Returned(1) =>
        \A a \in AllEntries(result[1]) :
            /\ 0 <= a.error_rate /\ a.error_rate <= 1000
            /\ a.total_errors <= a.total_requests
            /\ (\A k \in RecordsOf(logs[1], a.endpoint) :
                    logs[1][k].status_code >= 400) => a.error_rate = 1000
            /\ a.avg_db_queries >= 0

-----------------------------------------------------------------------------
(* C8 *)

NoneCrosses(ls) == SlowSet(ls) \cup ErrorSet(ls) \cup DbSet(ls) = {}

\* advice was requested for a batch in which no endpoint crosses a threshold,
\* and the request has been answered
QuietAdviceDone ==
    /\ hpc = "responded"
    /\ Returned(1)
    /\ use_ai
    /\ NoneCrosses(logs[1])

\* C8, as stated: when advice is requested for a non-empty batch in which no
\* endpoint crosses any threshold, the provider is never called and the
\* advice payload reports "No significant bottlenecks detected", whether or
\* not credentials are configured.
C8_QuietMeansHealthy ==
    QuietAdviceDone =>
        /\ provider_calls = 0
        /\ response.ai_recommendations.status = "healthy"
        /\ response.ai_recommendations.message
              = "No significant bottlenecks detected"

\* C8, amended: in that case the provider is never called and the request
\* succeeds with the analysis; the advice payload reports "No significant
\* bottlenecks detected" whenever the provider client was constructed, and
\* otherwise the "disabled" status (credentials missing) or the handler's
\* "error" status (constructing the client failed with credentials present).
C8_QuietNeverCallsProvider ==
    QuietAdviceDone =>
        /\ provider_calls = 0
        /\ response.status = 200
        /\ issues = <<>>
        /\ IF api_key
           THEN response.ai_recommendations \in {HealthyPayload, FailedPayload}
           ELSE response.ai_recommendations = DisabledPayload

\* C8 witness: such a request answered with the fixed healthy status
C8_Witness ==
    /\ QuietAdviceDone
    /\ api_key
    /\ response.ai_recommendations = HealthyPayload
    /\ Len(logs[1]) = 2

-----------------------------------------------------------------------------
(* C9 *)

\* C9: for every non-empty batch the /analyze request ends in a response that
\* holds the complete analysis result as analyze produces it, whatever the
\* advice step does; an advice failure is never a failed request.
C9_AnalysisAlwaysReturned ==
    (hpc = "responded" /\ logs[1] # <<>>) =>
        /\ response.status = 200
        /\ response.analysis.kind = "analysis"
        /\ response.analysis = result[1]

-----------------------------------------------------------------------------
(* C10 *)

\* C10: under any interleaving of analyze calls on one instance, each call
\* returns what it returns when run alone, two calls with the same input
\* return identical results, and no call changes slow_threshold_ms or
\* error_rate_threshold.
C10_CallsIndependent ==
    /\ slow_threshold_ms = DefaultSlowThresholdMs
    /\ error_rate_threshold = DefaultErrorRateThreshold
    /\ \A c \in Calls :
          pc[c] = "returned" =>
              result[c] = AnalyzeLogs(logs[c], DefaultSlowThresholdMs,
                                      DefaultErrorRateThreshold)
    /\ (pc[1] = "returned" /\ pc[2] = "returned" /\ logs[1] = logs[2]) =>
          result[1] = result[2]

\* C10 witness: call 1 has returned its analysis while call 2, given the same
\* two records of one endpoint, is in the middle of its grouping loop
C10_Witness ==
    /\ Returned(1)
    /\ pc[2] = "group" /\ idx[2] = 2
    /\ logs[1] = logs[2]
    /\ Len(logs[1]) = 2
    /\ logs[1][1].endpoint = logs[1][2].endpoint
    /\ result[1] = AnalyzeLogs(logs[1], 500, 50)

-----------------------------------------------------------------------------
(* C11 *)

\* the request of either handler has been answered
Answered == hpc \in {"responded", "quick_responded"}

\* C11: when the /analyze or /quick-analyze handler receives an empty batch,
\* the request ends in an HTTP 400 response whose detail is the analyzer's
\* "No logs provided" message, never in a success and never in a 500.
C11_EmptyBatchIs400 ==
    (Answered /\ logs[1] = <<>>) =>
        /\ response.status = 400
        /\ response.detail = "No logs provided"

=============================================================================
